---- MODULE Spec2Model ----
(* A model of src/contract.rs: the Contract sum type and its narrowing     *)
(* conversions, the Proxy wrapper, SecOption, the text-to-Query parser and *)
(* the query resolution protocol `new`.                                    *)
EXTENDS Integers, Sequences, FiniteSets, TLC

VARIABLES
    contract,   \* the Contract value a caller holds, or Nothing
    proxy,      \* the Proxy<S> value a caller holds, or Nothing
    built,      \* the instrument value `proxy` was first built with
    out,        \* the last operation applied: its receiver, arguments, result
    input,      \* the text handed to Query::from_str
    parsed,     \* what Query::from_str did with `input`
    pc,         \* per caller of `new`: where the call stands
    req,        \* per caller of `new`: the requested type S and the query
    ret,        \* per caller of `new`: what the call returned
    ncalls,     \* how many calls of `new` have been made
    borrow,     \* per caller of `new`: the client its call in progress holds,
                \* 0 when it holds none
    steps       \* per caller of `new`: the connection operations and narrows
                \* the call in progress has performed, in order

vars ==
    <<contract, proxy, built, out, input, parsed, pc, req, ret, ncalls, borrow,
      steps>>

contractVars == <<contract, proxy, built, out>>
queryVars == <<input, parsed>>
resolveVars == <<pc, req, ret, ncalls, borrow, steps>>

----------------------------------------------------------------------------
(* Bounds of the model *)

MaxContractId == 2
MaxMultiplier == 2
MaxLen == 3
MaxCalls == 2
NumClients == 2

----------------------------------------------------------------------------
(* Values *)

Nothing == [none |-> TRUE]
NoOp == [on |-> "none", op |-> "none"]

Ok(v) == [ok |-> TRUE, val |-> v]
Err(e) == [ok |-> FALSE, err |-> e]

Variants ==
    {"Forex", "Crypto", "Stock", "Index", "SecFuture", "SecOption", "Commodity"}

ContractId(n) == [id |-> n]
ContractIds == {ContractId(n) : n \in 1..MaxContractId}

Symbols == {"EUR", "XAU"}
LocalSymbols == {"EUR", "EUR.USD"}
Currencies == {"USD"}
Routings == {"Smart"}
Multipliers == {1000 * m : m \in 1..MaxMultiplier}
Dates == {<<2024, 3, 15>>}

\* the fields every record has, over the given ids
Mandatory(ids) ==
    [contract_id : ids, min_tick : {"0.01"}, symbol : Symbols,
     currency : Currencies, local_symbol : LocalSymbols, long_name : {"name"},
     order_types : {<<"LMT", "MKT">>}, valid_exchanges : {<<"Smart">>}]

\* r with the fields of x added
With(r, x) ==
    [f \in (DOMAIN r) \cup (DOMAIN x) |-> IF f \in DOMAIN x THEN x[f] ELSE r[f]]

Extend(base, extras) == {With(r, x) : r \in base, x \in extras}

Forex(ids) ==
    Extend(Mandatory(ids), [exchange : Routings, trading_class : {"tc"}])
Crypto(ids) ==
    Extend(Mandatory(ids), [trading_class : {"tc"}])
Stock(ids) ==
    Extend(Mandatory(ids),
           [exchange : Routings, primary_exchange : {"Nasdaq"},
            stock_type : {"COMMON"}, security_ids : {<<>>}, sector : {"Tech"},
            trading_class : {"tc"}])
Index(ids) ==
    Extend(Mandatory(ids), [exchange : Routings])
Commodity(ids) ==
    Extend(Mandatory(ids), [exchange : Routings, trading_class : {"tc"}])
SecFuture(ids) ==
    Extend(Mandatory(ids),
           [exchange : Routings, multiplier : Multipliers,
            expiration_date : Dates, trading_class : {"tc"},
            underlying_contract_id : {ContractId(1)}])
SecOptionInner(ids) ==
    Extend(Mandatory(ids),
           [exchange : Routings, strike : {"72.0"}, multiplier : {100},
            expiration_date : Dates, underlying_contract_id : {ContractId(1)},
            sector : {"Auto"}, trading_class : {"tc"}])
SecOption(ids) ==
    [tag : {"Call", "Put"}, inner : SecOptionInner(ids)]

\* the values of concrete type ty
Concrete(ty, ids) ==
    CASE ty = "Forex" -> Forex(ids)
      [] ty = "Crypto" -> Crypto(ids)
      [] ty = "Stock" -> Stock(ids)
      [] ty = "Index" -> Index(ids)
      [] ty = "SecFuture" -> SecFuture(ids)
      [] ty = "SecOption" -> SecOption(ids)
      [] ty = "Commodity" -> Commodity(ids)

Contract(ids) ==
    UNION {[tag : {v}, t : Concrete(v, ids)] : v \in Variants}

----------------------------------------------------------------------------
(* Contract narrowing *)

\* anyhow::anyhow!(...): an error that carries the formatted message only
anyhow(msg) == [anyhow |-> msg]

WrongType(func_name) ==
    anyhow(<<"Expected ", func_name, "; found other contract type.">>)

\* one arm `$pat => $exp`, and the catch-all arm
contract_impl(self, pat, func_name) ==
    IF self.tag = pat THEN Ok(self.t) ELSE Err(WrongType(func_name))

forex_ref(self) == contract_impl(self, "Forex", "forex")
forex(self) == contract_impl(self, "Forex", "forex")
crypto_ref(self) == contract_impl(self, "Crypto", "crypto")
crypto(self) == contract_impl(self, "Crypto", "crypto")
stock_ref(self) == contract_impl(self, "Stock", "stock")
stock(self) == contract_impl(self, "Stock", "stock")
index_ref(self) == contract_impl(self, "Index", "index")
index(self) == contract_impl(self, "Index", "index")
secfuture_ref(self) == contract_impl(self, "SecFuture", "secfuture")
secfuture(self) == contract_impl(self, "SecFuture", "secfuture")
secoption_ref(self) == contract_impl(self, "SecOption", "secoption")
secoption(self) == contract_impl(self, "SecOption", "secoption")
commodity_ref(self) == contract_impl(self, "Commodity", "commodity")
commodity_copied(self) == contract_impl(self, "Forex", "commodity")
commodity(self) == contract_impl(self, "Commodity", "commodity")

\* the borrowing narrow to B, by the name the caller writes
NarrowRef(B, self) ==
    CASE B = "Forex" -> forex_ref(self)
      [] B = "Crypto" -> crypto_ref(self)
      [] B = "Stock" -> stock_ref(self)
      [] B = "Index" -> index_ref(self)
      [] B = "SecFuture" -> secfuture_ref(self)
      [] B = "SecOption" -> secoption_ref(self)
      [] B = "Commodity" -> commodity_ref(self)

\* the consuming narrow to B
Narrow(B, self) ==
    CASE B = "Forex" -> forex(self)
      [] B = "Crypto" -> crypto(self)
      [] B = "Stock" -> stock(self)
      [] B = "Index" -> index(self)
      [] B = "SecFuture" -> secfuture(self)
      [] B = "SecOption" -> secoption(self)
      [] B = "Commodity" -> commodity(self)

----------------------------------------------------------------------------
(* SecOption *)

is_call(self) == self.tag = "Call"

is_put_unnegated(self) == is_call(self)

is_put(self) == ~is_call(self)

as_inner_ref(self) == self.inner

into_inner(self) == self.inner

----------------------------------------------------------------------------
(* The Security capability interface *)

\* a generated getter of a concrete record
Getter(r, f) == r[f]

\* the derived Security accessor f of a value x of concrete type ty
Derived(ty, x, f) ==
    IF ty = "SecOption" THEN Getter(as_inner_ref(x), f) ELSE Getter(x, f)

\* match_poly!(self; Self::Forex(t) | ... | Self::Commodity(t) => t.f())
match_poly(self, f) ==
    CASE self.tag = "Forex" -> Derived("Forex", self.t, f)
      [] self.tag = "Crypto" -> Derived("Crypto", self.t, f)
      [] self.tag = "Stock" -> Derived("Stock", self.t, f)
      [] self.tag = "Index" -> Derived("Index", self.t, f)
      [] self.tag = "SecFuture" -> Derived("SecFuture", self.t, f)
      [] self.tag = "SecOption" -> Derived("SecOption", self.t, f)
      [] self.tag = "Commodity" -> Derived("Commodity", self.t, f)

Contract_contract_id(self) == match_poly(self, "contract_id")
Contract_min_tick(self) == match_poly(self, "min_tick")
Contract_symbol(self) == match_poly(self, "symbol")
Contract_currency(self) == match_poly(self, "currency")
Contract_local_symbol(self) == match_poly(self, "local_symbol")
Contract_long_name_copied(self) == match_poly(self, "symbol")
Contract_long_name(self) == match_poly(self, "long_name")
Contract_order_types(self) == match_poly(self, "order_types")
Contract_valid_exchanges(self) == match_poly(self, "valid_exchanges")

\* the operations of the Security interface
ContractAccessors ==
    {"contract_id", "min_tick", "symbol", "currency", "local_symbol",
     "long_name", "order_types", "valid_exchanges"}

\* c.f() for a Contract c, by the name the caller writes
ContractAccessor(f, self) ==
    CASE f = "contract_id" -> Contract_contract_id(self)
      [] f = "min_tick" -> Contract_min_tick(self)
      [] f = "symbol" -> Contract_symbol(self)
      [] f = "currency" -> Contract_currency(self)
      [] f = "local_symbol" -> Contract_local_symbol(self)
      [] f = "long_name" -> Contract_long_name(self)
      [] f = "order_types" -> Contract_order_types(self)
      [] f = "valid_exchanges" -> Contract_valid_exchanges(self)

\* x.f() for x of a type S that implements Security
Security(S, x, f) ==
    IF S = "Contract"
    THEN ContractAccessor(f, x)
    ELSE Derived(S, x, f)

----------------------------------------------------------------------------
(* Proxy *)

SecurityTypes == Variants \cup {"Contract"}

Values(S, ids) == IF S = "Contract" THEN Contract(ids) ELSE Concrete(S, ids)

Proxy(S, x) == [S |-> S, inner |-> x]

Proxy_contract_id(self) == Security(self.S, self.inner, "contract_id")

Proxy_symbol(self) == Security(self.S, self.inner, "symbol")

Proxy_currency(self) == Security(self.S, self.inner, "currency")

Proxy_local_symbol(self) == Security(self.S, self.inner, "symbol")

ProxyAccessors == {"contract_id", "symbol", "currency", "local_symbol"}

ProxyAccessor(name, self) ==
    CASE name = "contract_id" -> Proxy_contract_id(self)
      [] name = "symbol" -> Proxy_symbol(self)
      [] name = "currency" -> Proxy_currency(self)
      [] name = "local_symbol" -> Proxy_local_symbol(self)

ContractType(name) == [ContractType |-> name]

contract_type(self) ==
    CASE self.inner.tag = "Forex" -> ContractType("Forex")
      [] self.inner.tag = "Crypto" -> ContractType("Crypto")
      [] self.inner.tag = "Stock" -> ContractType("Stock")
      [] self.inner.tag = "Index" -> ContractType("Index")
      [] self.inner.tag = "Commodity" -> ContractType("Commodity")
      [] self.inner.tag = "SecFuture" -> ContractType("SecFuture")
      [] self.inner.tag = "SecOption" -> ContractType("SecOption")

\* one arm `$pat => Ok($exp)`, and the catch-all arm
proxy_impl(self, pat, func_name) ==
    IF self.inner.tag = pat
    THEN Ok(Proxy(pat, self.inner.t))
    ELSE Err(WrongType(func_name))

Proxy_forex(self) == proxy_impl(self, "Forex", "forex")
Proxy_crypto(self) == proxy_impl(self, "Crypto", "crypto")
Proxy_stock(self) == proxy_impl(self, "Stock", "stock")
Proxy_index(self) == proxy_impl(self, "Index", "index")
Proxy_commodity_copied(self) == proxy_impl(self, "Crypto", "commodity")
Proxy_commodity(self) == proxy_impl(self, "Commodity", "commodity")
Proxy_sec_future(self) == proxy_impl(self, "SecFuture", "sec_future")
Proxy_sec_option(self) == proxy_impl(self, "SecOption", "sec_option")

ProxyNarrow(B, self) ==
    CASE B = "Forex" -> Proxy_forex(self)
      [] B = "Crypto" -> Proxy_crypto(self)
      [] B = "Stock" -> Proxy_stock(self)
      [] B = "Index" -> Proxy_index(self)
      [] B = "Commodity" -> Proxy_commodity(self)
      [] B = "SecFuture" -> Proxy_sec_future(self)
      [] B = "SecOption" -> Proxy_sec_option(self)

\* the accessors of the per-variant impl blocks
Proxy_Forex_trading_class(self) == Getter(self.inner, "trading_class")
Proxy_Crypto_trading_class(self) == Getter(self.inner, "trading_class")
Proxy_Stock_trading_class(self) == Getter(self.inner, "trading_class")
Proxy_Stock_primary_exchange(self) == self.inner.primary_exchange
Proxy_Commodity_trading_class(self) == Getter(self.inner, "trading_class")
Proxy_SecFuture_trading_class(self) == Getter(self.inner, "trading_class")
Proxy_SecFuture_expiration_date(self) == self.inner.expiration_date
Proxy_SecFuture_multiplier(self) == self.inner.multiplier
Proxy_SecOption_trading_class(self) == as_inner_ref(self.inner).trading_class
Proxy_SecOption_expiration_date(self) == as_inner_ref(self.inner).expiration_date
Proxy_SecOption_strike(self) == as_inner_ref(self.inner).strike
Proxy_SecOption_is_call(self) == is_call(self.inner)
Proxy_SecOption_is_put(self) == is_put(self.inner)
Proxy_SecOption_multiplier(self) == as_inner_ref(self.inner).multiplier

\* the accessors Proxy<S> has beyond the reduced set
ProxyFields(S) ==
    CASE S \in {"Forex", "Crypto", "Commodity"} -> {"trading_class"}
      [] S = "Stock" -> {"trading_class", "primary_exchange"}
      [] S = "SecFuture" -> {"trading_class", "expiration_date", "multiplier"}
      [] S = "SecOption" -> {"trading_class", "expiration_date", "strike",
                             "is_call", "is_put", "multiplier"}
      [] OTHER -> {}

ProxyField(name, self) ==
    CASE self.S = "Forex" -> Proxy_Forex_trading_class(self)
      [] self.S = "Crypto" -> Proxy_Crypto_trading_class(self)
      [] self.S = "Commodity" -> Proxy_Commodity_trading_class(self)
      [] self.S = "Stock" /\ name = "trading_class" ->
            Proxy_Stock_trading_class(self)
      [] self.S = "Stock" /\ name = "primary_exchange" ->
            Proxy_Stock_primary_exchange(self)
      [] self.S = "SecFuture" /\ name = "trading_class" ->
            Proxy_SecFuture_trading_class(self)
      [] self.S = "SecFuture" /\ name = "expiration_date" ->
            Proxy_SecFuture_expiration_date(self)
      [] self.S = "SecFuture" /\ name = "multiplier" ->
            Proxy_SecFuture_multiplier(self)
      [] self.S = "SecOption" /\ name = "trading_class" ->
            Proxy_SecOption_trading_class(self)
      [] self.S = "SecOption" /\ name = "expiration_date" ->
            Proxy_SecOption_expiration_date(self)
      [] self.S = "SecOption" /\ name = "strike" ->
            Proxy_SecOption_strike(self)
      [] self.S = "SecOption" /\ name = "is_call" ->
            Proxy_SecOption_is_call(self)
      [] self.S = "SecOption" /\ name = "is_put" ->
            Proxy_SecOption_is_put(self)
      [] self.S = "SecOption" /\ name = "multiplier" ->
            Proxy_SecOption_multiplier(self)

----------------------------------------------------------------------------
(* The contract specification: a caller builds values and applies the     *)
(* operations of Contract, SecOption and Proxy to them.                   *)

AllIds == ContractIds

QueryIdle == input = <<>> /\ parsed = Nothing

\* the concurrent callers of new
Callers == {1, 2}

ResolveIdle ==
    /\ pc = [i \in Callers |-> "idle"]
    /\ req = [i \in Callers |-> Nothing]
    /\ ret = [i \in Callers |-> Nothing]
    /\ ncalls = 0
    /\ borrow = [i \in Callers |-> 0]
    /\ steps = [i \in Callers |-> <<>>]

Init ==
    /\ contract = Nothing
    /\ proxy = Nothing
    /\ built = Nothing
    /\ out = NoOp
    /\ QueryIdle
    /\ ResolveIdle

\* the caller holds neither a Contract nor a Proxy
HoldsNothing == contract = Nothing /\ proxy = Nothing

\* Contract::Forex(t), Contract::Crypto(t), ...: a caller builds a Contract
MakeContract ==
    /\ HoldsNothing
    /\ \E c \in Contract(AllIds) :
        /\ contract' = c
        /\ proxy' = Nothing
        /\ built' = Nothing
        /\ out' = NoOp
        /\ UNCHANGED <<queryVars, resolveVars>>

\* c.forex_ref(), c.crypto_ref(), ...: c stays with the caller
CallNarrowRef ==
    /\ contract # Nothing
    /\ \E B \in Variants :
        out' = [on |-> "Contract", op |-> "narrow_ref", self |-> contract, target |-> B,
                res |-> NarrowRef(B, contract)]
    /\ UNCHANGED <<contract, proxy, built, queryVars, resolveVars>>

\* c.contract_id(), c.min_tick(), ..., c.valid_exchanges(): c stays with
\* the caller
CallAccessor ==
    /\ contract # Nothing
    /\ \E name \in ContractAccessors :
        out' = [on |-> "Contract", op |-> name, self |-> contract,
                res |-> ContractAccessor(name, contract)]
    /\ UNCHANGED <<contract, proxy, built, queryVars, resolveVars>>

\* c.forex(), c.crypto(), ...: c is moved into the call
CallNarrow ==
    /\ contract # Nothing
    /\ \E B \in Variants :
        out' = [on |-> "Contract", op |-> "narrow", self |-> contract, target |-> B,
                res |-> Narrow(B, contract)]
    /\ contract' = Nothing
    /\ UNCHANGED <<proxy, built, queryVars, resolveVars>>

\* o.is_call(), o.is_put(), o.as_inner_ref(), o.into_inner() on the
\* SecOption o of a Contract::SecOption(o)
CallSecOption ==
    /\ contract # Nothing
    /\ contract.tag = "SecOption"
    /\ LET o == contract.t IN
       \E op \in {"is_call", "is_put", "as_inner_ref", "into_inner"} :
        out' = [on |-> "SecOption", op |-> op, self |-> o,
                res |-> CASE op = "is_call" -> is_call(o)
                          [] op = "is_put" -> is_put(o)
                          [] op = "as_inner_ref" -> as_inner_ref(o)
                          [] op = "into_inner" -> into_inner(o)]
    /\ UNCHANGED <<contract, proxy, built, queryVars, resolveVars>>

\* Proxy { inner: x }: a caller builds a Proxy<S>
MakeProxy ==
    /\ HoldsNothing
    /\ \E S \in SecurityTypes : \E x \in Values(S, AllIds) :
        /\ proxy' = Proxy(S, x)
        /\ built' = Proxy(S, x)
        /\ contract' = Nothing
        /\ out' = NoOp
        /\ UNCHANGED <<queryVars, resolveVars>>

\* p.contract_id(), p.symbol(), p.currency(), p.local_symbol()
CallProxyAccessor ==
    /\ proxy # Nothing
    /\ \E name \in ProxyAccessors :
        out' = [on |-> "Proxy", op |-> name, self |-> proxy,
                res |-> ProxyAccessor(name, proxy)]
    /\ UNCHANGED <<contract, proxy, built, queryVars, resolveVars>>

\* p.contract_type() on a Proxy<Contract>
CallContractType ==
    /\ proxy # Nothing
    /\ proxy.S = "Contract"
    /\ out' = [on |-> "Proxy", op |-> "contract_type", self |-> proxy,
               res |-> contract_type(proxy)]
    /\ UNCHANGED <<contract, proxy, built, queryVars, resolveVars>>

\* p.forex(), p.crypto(), ... on a Proxy<Contract>: p is moved into the call
\* and the caller keeps the Proxy<B> it returns, if any
CallProxyNarrow ==
    /\ proxy # Nothing
    /\ proxy.S = "Contract"
    /\ \E B \in Variants :
        LET res == ProxyNarrow(B, proxy) IN
        /\ out' = [on |-> "Proxy", op |-> "narrow", self |-> proxy,
                   target |-> B, res |-> res]
        /\ proxy' = IF res.ok THEN res.val ELSE Nothing
    /\ UNCHANGED <<contract, built, queryVars, resolveVars>>

\* p.trading_class(), p.multiplier(), ... on a Proxy of a concrete type
CallProxyField ==
    /\ proxy # Nothing
    /\ \E name \in ProxyFields(proxy.S) :
        out' = [on |-> "Proxy", op |-> name, self |-> proxy,
                res |-> ProxyField(name, proxy)]
    /\ UNCHANGED <<contract, proxy, built, queryVars, resolveVars>>

\* the value the caller holds goes out of scope
Drop ==
    /\ ~HoldsNothing
    /\ contract' = Nothing
    /\ proxy' = Nothing
    /\ built' = Nothing
    /\ out' = NoOp
    /\ UNCHANGED <<queryVars, resolveVars>>

Next ==
    \/ Drop
    \/ MakeContract
    \/ CallAccessor
    \/ CallNarrowRef
    \/ CallNarrow
    \/ CallSecOption
    \/ MakeProxy
    \/ CallProxyAccessor
    \/ CallContractType
    \/ CallProxyNarrow
    \/ CallProxyField

Spec == Init /\ [][Next]_vars

----------------------------------------------------------------------------
(* Query: parsing from text *)

\* A string is a sequence of characters.  "U+0663" is ARABIC-INDIC DIGIT
\* THREE: numeric for char::is_numeric, not a decimal digit for the parser.
AsciiDigits == {"0", "7"}
Chars == AsciiDigits \cup {"+", "-", "B", "U+0663"}
Strings == UNION {[1..n -> Chars] : n \in 0..MaxLen}

is_numeric(c) == c \in {"0", "1", "2", "3", "4", "5", "6", "7", "8", "9", "U+0663"}

is_alphabetic(c) == c \in {"B"}

to_digit(c) ==
    CASE c = "0" -> 0 [] c = "1" -> 1 [] c = "2" -> 2 [] c = "3" -> 3
      [] c = "4" -> 4 [] c = "5" -> 5 [] c = "6" -> 6 [] c = "7" -> 7
      [] c = "8" -> 8 [] c = "9" -> 9 [] OTHER -> -1

\* the decimal digits of i64::MAX
I64MaxDigits == <<9, 2, 2, 3, 3, 7, 2, 0, 3, 6, 8, 5, 4, 7, 7, 5, 8, 0, 7>>

RECURSIVE StripZeros(_)
StripZeros(ds) ==
    IF ds # <<>> /\ ds[1] = 0 THEN StripZeros(Tail(ds)) ELSE ds

RECURSIVE LexGreater(_, _)
LexGreater(a, b) ==
    IF a = <<>> THEN FALSE
    ELSE IF a[1] # b[1] THEN a[1] > b[1]
    ELSE LexGreater(Tail(a), Tail(b))

\* the magnitude written by ds does not fit: above i64::MAX, or above
\* i64::MAX + 1 for a negative number
Overflows(ds, positive) ==
    LET m == StripZeros(ds)
        limit == IF positive THEN I64MaxDigits
                 ELSE [I64MaxDigits EXCEPT ![19] = 8]
    IN \/ Len(m) > 19
       \/ Len(m) = 19 /\ LexGreater(m, limit)

RECURSIVE Magnitude(_)
Magnitude(ds) ==
    IF ds = <<>> THEN 0
    ELSE 10 * Magnitude(SubSeq(ds, 1, Len(ds) - 1)) + ds[Len(ds)]

\* str::parse::<i64>
i64_from_str(s) ==
    IF s = <<>> THEN Err("Empty")
    ELSE IF s \in {<<"+">>, <<"-">>} THEN Err("InvalidDigit")
    ELSE LET positive == s[1] # "-"
             digits == IF s[1] \in {"+", "-"} THEN Tail(s) ELSE s
             ds == [i \in 1..Len(digits) |-> to_digit(digits[i])]
         IN IF \E i \in 1..Len(ds) : ds[i] = -1 THEN Err("InvalidDigit")
            ELSE IF Overflows(ds, positive)
                 THEN Err(IF positive THEN "PosOverflow" ELSE "NegOverflow")
            ELSE Ok(IF positive THEN Magnitude(ds) ELSE 0 - Magnitude(ds))

\* s.parse().map(Self)
ContractId_from_str(s) ==
    LET r == i64_from_str(s) IN IF r.ok THEN Ok(ContractId(r.val)) ELSE r

Figi(s) == [figi |-> s]

InvalidFigi == {"InvalidFigi"}

\* what the FIGI parser may answer for s: a FIGI only for a text that
\* starts with a letter
Figi_from_str(s) ==
    {Err(e) : e \in InvalidFigi}
        \cup (IF s # <<>> /\ is_alphabetic(s[1]) THEN {Ok(Figi(s))} ELSE {})

Query_IbContractId(id, routing) ==
    [q |-> "IbContractId", id |-> id, routing |-> routing]
Query_Figi(f) == [q |-> "Figi", figi |-> f]

InvalidQuery_IbContractId(e) == [e |-> "IbContractId", cause |-> e]
InvalidQuery_Figi(e) == [e |-> "Figi", cause |-> e]
InvalidQuery_Empty == [e |-> "Empty"]

\* Query::from_str with the given default routing, treatment of the empty
\* text and test of the first character
FromStrWith(s, figi, routing, emptyIsError, numeric(_)) ==
    IF s = <<>> /\ emptyIsError
    THEN [res |-> Err(InvalidQuery_Empty), calls |-> <<>>]
    ELSE IF s # <<>> /\ numeric(s[1])
    THEN LET r == ContractId_from_str(s) IN
         [res |-> IF r.ok THEN Ok(Query_IbContractId(r.val, routing))
                  ELSE Err(InvalidQuery_IbContractId(r.err)),
          calls |-> <<"ContractId::from_str">>]
    ELSE [res |-> IF figi.ok THEN Ok(Query_Figi(figi.val))
                  ELSE Err(InvalidQuery_Figi(figi.err)),
          calls |-> <<"Figi::from_str">>, figi |-> figi]

is_ascii_digit(c) == to_digit(c) # -1

\* the routing defaults to the primary exchange
Query_from_str_primary(s, figi) ==
    FromStrWith(s, figi, "Primary", TRUE, is_numeric)

\* the empty text falls through to the FIGI branch
Query_from_str_no_empty(s, figi) ==
    FromStrWith(s, figi, "Smart", FALSE, is_numeric)

\* the first character is tested with is_ascii_digit
Query_from_str_ascii(s, figi) ==
    FromStrWith(s, figi, "Smart", TRUE, is_ascii_digit)

\* Query::from_str(s); figi is the FIGI parser's answer for s.  `calls`
\* lists the parsers consulted.
Query_from_str(s, figi) ==
    IF s = <<>>
    THEN [res |-> Err(InvalidQuery_Empty), calls |-> <<>>]
    ELSE IF is_numeric(s[1])
    THEN LET r == ContractId_from_str(s) IN
         [res |-> IF r.ok THEN Ok(Query_IbContractId(r.val, "Smart"))
                  ELSE Err(InvalidQuery_IbContractId(r.err)),
          calls |-> <<"ContractId::from_str">>]
    ELSE [res |-> IF figi.ok THEN Ok(Query_Figi(figi.val))
                  ELSE Err(InvalidQuery_Figi(figi.err)),
          calls |-> <<"Figi::from_str">>, figi |-> figi]

\* text.parse::<Query>()
ParseQuery ==
    /\ \E s \in Strings : \E figi \in Figi_from_str(s) :
        /\ input' = s
        /\ parsed' = Query_from_str(s, figi)
    /\ UNCHANGED <<contractVars, resolveVars>>

NextQuery == ParseQuery

SpecQuery == Init /\ [][NextQuery]_vars

----------------------------------------------------------------------------
(* Query resolution: new::<S>(client, query) *)

\* BBG000B9XRY4
SampleFigi == <<"B", "B", "G", "0", "0", "0", "B", "9", "X", "R", "Y", "4">>

Queries ==
    {Query_IbContractId(ContractId(1), "Smart"), Query_Figi(Figi(SampleFigi))}

\* the contracts the connection may reply with
ReplyIds == {ContractId(1), ContractId(2)}
Replies == {c \in Contract(ReplyIds) :
                match_poly(c, "symbol") = "EUR"
                    /\ match_poly(c, "local_symbol") = "EUR.USD"}

\* format!("{:?}", query), as the tokens of the text
DebugQuery(query) ==
    IF query.q = "IbContractId"
    THEN <<"IbContractId", "(", "ContractId", "(", ToString(query.id.id), ")",
           ", ", query.routing, ")">>
    ELSE <<"Figi", "(">> \o query.figi.figi \o <<")">>

\* client.send_contract_query(query).await
send_contract_query(query) == {Ok(<<>>), Err([transport |-> "send failed"])}

\* client.recv_contract_query().await
recv_contract_query ==
    {Ok(c) : c \in Replies} \cup {Err([transport |-> "receive failed"])}

UnexpectedSecurityType(msg) == [UnexpectedSecurityType |-> msg]

\* x.try_into() for x of concrete type ty, into S
try_into(S, ty, x) ==
    IF S = ty THEN Ok(x)
    ELSE IF S = "Contract" THEN Ok([tag |-> ty, t |-> x])
    ELSE Err(UnexpectedSecurityType(<<"expected ", S>>))

\* .map_err(|_| ())
map_err_unit(r) == IF r.ok THEN r ELSE Err(<<>>)

\* the match of `new`: the reply's record converted into S, the conversion
\* error dropped
new_match(S, c) ==
    CASE c.tag = "Forex" -> map_err_unit(try_into(S, "Forex", c.t))
      [] c.tag = "Crypto" -> map_err_unit(try_into(S, "Crypto", c.t))
      [] c.tag = "Stock" -> map_err_unit(try_into(S, "Stock", c.t))
      [] c.tag = "Index" -> map_err_unit(try_into(S, "Index", c.t))
      [] c.tag = "SecFuture" -> map_err_unit(try_into(S, "SecFuture", c.t))
      [] c.tag = "SecOption" -> map_err_unit(try_into(S, "SecOption", c.t))
      [] c.tag = "Commodity" -> map_err_unit(try_into(S, "Commodity", c.t))

\* the conversion error is returned as it is
new_narrow_leaky(S, query, c) ==
    CASE c.tag = "Forex" -> try_into(S, "Forex", c.t)
      [] c.tag = "Crypto" -> try_into(S, "Crypto", c.t)
      [] c.tag = "Stock" -> try_into(S, "Stock", c.t)
      [] c.tag = "Index" -> try_into(S, "Index", c.t)
      [] c.tag = "SecFuture" -> try_into(S, "SecFuture", c.t)
      [] c.tag = "SecOption" -> try_into(S, "SecOption", c.t)
      [] c.tag = "Commodity" -> try_into(S, "Commodity", c.t)

\* what new::<S> returns once the connection has replied with c
new_narrow(S, query, c) ==
    LET r == new_match(S, c)
    IN IF r.ok THEN r
       ELSE Err(anyhow(<<"Failed to create contract from ">>
                           \o DebugQuery(query) \o <<": ">>))

\* one operation of a call and how it ended
Step(name, r) == [step |-> name, ok |-> r.ok]

\* the send error is ignored and the call goes on to receive
Send_ignoring(i) ==
    /\ pc[i] = "send"
    /\ \E r \in send_contract_query(req[i].query) :
        steps' = [steps EXCEPT ![i] = Append(@, Step("send", r))]
    /\ pc' = [pc EXCEPT ![i] = "recv"]
    /\ UNCHANGED <<req, ret, ncalls, borrow, contractVars, queryVars>>

\* the connections callers may pass to new
Clients == 1..NumClients

\* a call in progress holds the `&mut ActiveClient` it was given
Borrowed(client) == \E j \in Callers : borrow[j] = client

\* new takes the client by shared reference: a call may start on a client
\* another call is using
CallOn_shared(i, client) ==
    /\ pc[i] = "idle"
    /\ ncalls < MaxCalls
    /\ ncalls' = ncalls + 1
    /\ \E S \in SecurityTypes : \E query \in Queries :
        req' = [req EXCEPT ![i] = [S |-> S, query |-> query]]
    /\ borrow' = [borrow EXCEPT ![i] = client]
    /\ ret' = [ret EXCEPT ![i] = Nothing]
    /\ steps' = [steps EXCEPT ![i] = <<>>]
    /\ pc' = [pc EXCEPT ![i] = "send"]
    /\ UNCHANGED <<contractVars, queryVars>>

\* a caller calls new::<S>(client, query) on the given client, which no
\* other call in progress may hold
CallOn(i, client) ==
    /\ pc[i] = "idle"
    /\ ~Borrowed(client)
    /\ ncalls < MaxCalls
    /\ ncalls' = ncalls + 1
    /\ \E S \in SecurityTypes : \E query \in Queries :
        req' = [req EXCEPT ![i] = [S |-> S, query |-> query]]
    /\ borrow' = [borrow EXCEPT ![i] = client]
    /\ ret' = [ret EXCEPT ![i] = Nothing]
    /\ steps' = [steps EXCEPT ![i] = <<>>]
    /\ pc' = [pc EXCEPT ![i] = "send"]
    /\ UNCHANGED <<contractVars, queryVars>>

\* a caller calls new::<S>(client, query)
Call(i) == \E client \in Clients : CallOn(i, client)

\* client.send_contract_query(query).await?
Send(i) ==
    /\ pc[i] = "send"
    /\ \E r \in send_contract_query(req[i].query) :
        /\ steps' = [steps EXCEPT ![i] = Append(@, Step("send", r))]
        /\ IF r.ok
           THEN pc' = [pc EXCEPT ![i] = "recv"] /\ UNCHANGED <<ret, borrow>>
           ELSE /\ pc' = [pc EXCEPT ![i] = "done"]
                /\ ret' = [ret EXCEPT ![i] = [res |-> r]]
                /\ borrow' = [borrow EXCEPT ![i] = 0]
    /\ UNCHANGED <<req, ncalls, contractVars, queryVars>>

\* client.recv_contract_query().await? answered with r, then the match and
\* both map_err
RecvReply(i, r) ==
    /\ pc[i] = "recv"
    /\ ret' = [ret EXCEPT ![i] =
                  [reply |-> r,
                   res |-> IF r.ok
                           THEN new_narrow(req[i].S, req[i].query, r.val)
                           ELSE r]]
    /\ steps' = [steps EXCEPT ![i] =
                    IF r.ok
                    THEN @ \o <<Step("recv", r),
                                Step("narrow", new_match(req[i].S, r.val))>>
                    ELSE Append(@, Step("recv", r))]
    /\ pc' = [pc EXCEPT ![i] = "done"]
    /\ borrow' = [borrow EXCEPT ![i] = 0]
    /\ UNCHANGED <<req, ncalls, contractVars, queryVars>>

\* the rest of new, from the receive on
Recv(i) == \E r \in recv_contract_query : RecvReply(i, r)

\* the caller takes the result
Return(i) ==
    /\ pc[i] = "done"
    /\ pc' = [pc EXCEPT ![i] = "idle"]
    /\ req' = [req EXCEPT ![i] = Nothing]
    /\ ret' = [ret EXCEPT ![i] = Nothing]
    /\ steps' = [steps EXCEPT ![i] = <<>>]
    /\ UNCHANGED <<ncalls, borrow, contractVars, queryVars>>

NextResolve ==
    \E i \in Callers : Call(i) \/ Send(i) \/ Recv(i) \/ Return(i)

SpecResolve == Init /\ [][NextResolve]_vars

----------------------------------------------------------------------------
(* Properties of Contract, SecOption and Proxy, stated for Spec *)

\* the name a narrowing error gives for the expected variant
ContractFuncName ==
    [Forex |-> "forex", Crypto |-> "crypto", Stock |-> "stock",
     Index |-> "index", SecFuture |-> "secfuture", SecOption |-> "secoption",
     Commodity |-> "commodity"]

ProxyFuncName ==
    [Forex |-> "forex", Crypto |-> "crypto", Stock |-> "stock",
     Index |-> "index", SecFuture |-> "sec_future",
     SecOption |-> "sec_option", Commodity |-> "commodity"]

IsWrongTypeError(res, name) ==
    /\ ~res.ok
    /\ DOMAIN res = {"ok", "err"}
    /\ res.err = [anyhow |-> <<"Expected ", name, "; found other contract type.">>]

\* C1: a borrowing or consuming narrow of a Contract built from variant A to
\* variant B succeeds exactly when B = A; on success the record returned is
\* the record the Contract was built from, and otherwise the result is a
\* wrong-contract-type error naming B and no record.
C1_NarrowSucceedsIffSameVariant ==
    (out.on = "Contract" /\ out.op \in {"narrow_ref", "narrow"}) =>
        /\ out.res.ok <=> (out.target = out.self.tag)
        /\ out.target = out.self.tag => out.res = Ok(out.self.t)
        /\ out.target # out.self.tag =>
              IsWrongTypeError(out.res, ContractFuncName[out.target])

C1_Witness ==
    /\ out.on = "Contract"
    /\ out.op = "narrow"
    /\ out.self.tag = "Forex"
    /\ out.target = "Commodity"
    /\ ~out.res.ok
    /\ contract = Nothing

\* the concrete record a Proxy holds, whatever S is
HeldRecord(p) ==
    LET v == IF p.S = "Contract" THEN p.inner.t ELSE p.inner
        ty == IF p.S = "Contract" THEN p.inner.tag ELSE p.S
    IN IF ty = "SecOption" THEN v.inner ELSE v

\* C2: each accessor of the reduced set of a Proxy returns the held
\* instrument's field of the same name (contract_id, symbol, currency,
\* local_symbol), also when symbol and local symbol differ.
C2_ProxyAccessorReadsSameField ==
    (out.on = "Proxy" /\ out.op \in ProxyAccessors) =>
        out.res = HeldRecord(out.self)[out.op]

\* C8: is_call is true exactly for the Call tag, is_put exactly for the Put
\* tag, so exactly one of them is true of any SecOption; as_inner_ref and
\* into_inner return the inner record whatever the tag.
C8_SecOptionTagAndInner ==
    out.on = "SecOption" =>
        /\ out.self.tag \in {"Call", "Put"}
        /\ out.op = "is_call" => out.res = (out.self.tag = "Call")
        /\ out.op = "is_put" => out.res = (out.self.tag = "Put")
        /\ out.op \in {"as_inner_ref", "into_inner"} =>
              out.res = out.self.inner

C8_Witness ==
    /\ out.on = "SecOption"
    /\ out.op = "is_put"
    /\ out.self.tag = "Call"
    /\ out.res = FALSE

\* C9: on a Proxy<Contract> holding variant A, contract_type is the
\* ContractType named A; the narrowing operation for B succeeds exactly when
\* B = A and otherwise fails with a wrong-contract-type error; the Proxy<A>
\* returned holds the record the proxy was built with, and its
\* variant-specific accessors return that record's values.
C9_ProxyContractNarrowing ==
    /\ (out.on = "Proxy" /\ out.op = "contract_type") =>
          out.res = [ContractType |-> out.self.inner.tag]
    /\ (out.on = "Proxy" /\ out.op = "narrow") =>
          /\ out.res.ok <=> (out.target = out.self.inner.tag)
          /\ out.res.ok =>
                /\ out.res.val = [S |-> out.target, inner |-> out.self.inner.t]
                /\ out.self = built
                /\ proxy = out.res.val
          /\ ~out.res.ok =>
                IsWrongTypeError(out.res, ProxyFuncName[out.target])
    /\ (out.on = "Proxy" /\ out.op \in ProxyFields(out.self.S)
            /\ built.S = "Contract") =>
          /\ out.self.S = built.inner.tag
          /\ out.op \notin {"is_call", "is_put"} =>
                out.res = HeldRecord(built)[out.op]
          /\ out.op = "is_call" => out.res = (built.inner.t.tag = "Call")
          /\ out.op = "is_put" => out.res = (built.inner.t.tag = "Put")

C9_Witness ==
    /\ out.on = "Proxy"
    /\ out.op = "multiplier"
    /\ built.S = "Contract"
    /\ built.inner.tag = "SecFuture"
    /\ proxy.S = "SecFuture"
    /\ out.res = 2000
    /\ built.inner.t.multiplier = 2000

----------------------------------------------------------------------------
(* Properties of Query::from_str, stated for SpecQuery *)

\* C5 as stated: every non-empty text that parses as a signed 64-bit integer
\* parses as the Query IbContractId(that integer, Smart).
C5_EveryIntegerTextIsContractId ==
    (parsed # Nothing /\ input # <<>> /\ i64_from_str(input).ok) =>
        parsed.res =
            Ok(Query_IbContractId(ContractId(i64_from_str(input).val), "Smart"))

\* C5: every non-empty text whose first character is numeric and that parses
\* as a signed 64-bit integer parses as the Query IbContractId(that integer,
\* Smart); a text with a leading sign is not such a text.
C5_NumericLeadingIntegerTextIsContractId ==
    (parsed # Nothing /\ input # <<>> /\ is_numeric(input[1])
        /\ i64_from_str(input).ok) =>
        /\ parsed.res =
              Ok([q |-> "IbContractId",
                  id |-> [id |-> i64_from_str(input).val],
                  routing |-> "Smart"])
        /\ input = <<"0", "7", "0">> => parsed.res.val.id = [id |-> 70]
        /\ input = <<"7", "7">> => parsed.res.val.id = [id |-> 77]

C5_Witness ==
    /\ input = <<"0", "7">>
    /\ parsed # Nothing
    /\ parsed.res = Ok([q |-> "IbContractId", id |-> [id |-> 7],
                        routing |-> "Smart"])

\* C6: parsing the empty text fails with InvalidQuery::Empty and consults
\* neither the integer parser nor the FIGI parser.
C6_EmptyTextIsEmptyError ==
    (parsed # Nothing /\ input = <<>>) =>
        /\ parsed.res = Err([e |-> "Empty"])
        /\ parsed.calls = <<>>

C6_Witness ==
    /\ input = <<>>
    /\ parsed # Nothing
    /\ ~parsed.res.ok
    /\ parsed.res.err.e = "Empty"

\* C7: a non-empty text whose first character is not numeric is decided by
\* the FIGI parser alone: Figi(f) when it answers f, InvalidQuery::Figi(e)
\* when it fails with e; a text whose first character is numeric is decided
\* by the integer parser alone and never gives a Figi or InvalidQuery::Figi.
C7_FirstCharacterSelectsParser ==
    (parsed # Nothing /\ input # <<>>) =>
        IF is_numeric(input[1])
        THEN /\ parsed.calls = <<"ContractId::from_str">>
             /\ parsed.res.ok => parsed.res.val.q = "IbContractId"
             /\ ~parsed.res.ok => parsed.res.err.e = "IbContractId"
        ELSE /\ parsed.calls = <<"Figi::from_str">>
             /\ parsed.figi \in Figi_from_str(input)
             /\ parsed.figi.ok =>
                   parsed.res = Ok([q |-> "Figi", figi |-> parsed.figi.val])
             /\ ~parsed.figi.ok =>
                   parsed.res = Err([e |-> "Figi", cause |-> parsed.figi.err])

C7_Witness ==
    /\ input = <<"B", "7", "0">>
    /\ parsed # Nothing
    /\ parsed.res = Ok([q |-> "Figi", figi |-> [figi |-> <<"B", "7", "0">>]])

----------------------------------------------------------------------------
(* Properties of new, stated for SpecResolve *)

\* caller i's call has received a contract from the connection
Replied(i) ==
    /\ pc[i] = "done"
    /\ "reply" \in DOMAIN ret[i]
    /\ ret[i].reply.ok

\* C3 as stated: when the connection replies with a contract of variant A,
\* new requested as the concrete type S returns the replied record
\* unmodified if S = A and the UnexpectedSecurityType error, never a record,
\* if S is another concrete type.
C3_MismatchIsUnexpectedSecurityType ==
    \A i \in Callers :
        (Replied(i) /\ req[i].S \in Variants) =>
            IF req[i].S = ret[i].reply.val.tag
            THEN ret[i].res = Ok(ret[i].reply.val.t)
            ELSE /\ ~ret[i].res.ok
                 /\ DOMAIN ret[i].res.err = {"UnexpectedSecurityType"}

\* the text of {:?} for the queries callers pass
QueryText(query) ==
    IF query = [q |-> "IbContractId", id |-> [id |-> 1], routing |-> "Smart"]
    THEN <<"IbContractId", "(", "ContractId", "(", "1", ")", ", ", "Smart",
           ")">>
    ELSE <<"Figi", "(", "B", "B", "G", "0", "0", "0", "B", "9", "X", "R", "Y",
           "4", ")">>

\* C4: when the narrow in new fails, the error returned is a message error
\* that carries the query passed to the call and nothing else: it is the
\* same for all seven replied variants and holds no conversion error.
C4_MismatchErrorCarriesQuery ==
    \A i \in Callers :
        (Replied(i) /\ ~ret[i].res.ok) =>
            /\ req[i].S \in Variants \ {ret[i].reply.val.tag}
            /\ ret[i].res.err =
                  [anyhow |-> <<"Failed to create contract from ">>
                                  \o QueryText(req[i].query) \o <<": ">>]

C4_Witness ==
    \E i \in Callers :
        /\ Replied(i)
        /\ ret[i].reply.val.tag = "Stock"
        /\ req[i].S = "Forex"
        /\ req[i].query.q = "Figi"
        /\ ~ret[i].res.ok
        /\ ret[i].res.err.anyhow[2] = "Figi"

\* C11: a call of new sends the query exactly once, receives exactly once
\* and only after a successful send, and narrows at most once and only what
\* it received; a failed send ends the call with the send error and no
\* receive, a failed receive ends it with the receive error and no narrow.
C11_SendThenReceiveThenNarrow ==
    \A i \in Callers :
        LET names == [k \in 1..Len(steps[i]) |-> steps[i][k].step] IN
        /\ pc[i] \in {"idle", "send"} => steps[i] = <<>>
        /\ pc[i] = "recv" => steps[i] = <<[step |-> "send", ok |-> TRUE]>>
        /\ pc[i] = "done" =>
              \/ /\ names = <<"send">>
                 /\ ~steps[i][1].ok
                 /\ ret[i] = [res |-> Err([transport |-> "send failed"])]
              \/ /\ names = <<"send", "recv">>
                 /\ steps[i][1].ok /\ ~steps[i][2].ok
                 /\ ~ret[i].reply.ok
                 /\ ret[i].res = Err([transport |-> "receive failed"])
              \/ /\ names = <<"send", "recv", "narrow">>
                 /\ steps[i][1].ok /\ steps[i][2].ok
                 /\ ret[i].reply.ok
                 /\ ret[i].res.ok = steps[i][3].ok

C11_Witness ==
    \E i \in Callers :
        /\ pc[i] = "done"
        /\ Len(steps[i]) = 2
        /\ steps[i][2] = [step |-> "recv", ok |-> FALSE]
        /\ ~ret[i].res.ok

\* C12 as stated: the calls of concurrent callers are not ordered, also
\* against one shared connection: a caller that is not in a call can start
\* one on any client whatever the other callers are doing, a call that is to
\* send or to receive can do so, and the connection may answer a receive
\* with any contract.
C12_NoOrderAlsoOnSharedConnection ==
    \A i \in Callers :
        /\ (pc[i] = "idle" /\ ncalls < MaxCalls) =>
              \A client \in Clients : ENABLED CallOn(i, client)
        /\ pc[i] = "send" => ENABLED Send(i)
        /\ pc[i] = "recv" =>
              \A c \in Replies : ENABLED RecvReply(i, Ok(c))

\* C12: new takes no lock, so a call that is to send or to receive can
\* always do so whatever the other calls are doing, and the connection may
\* answer a receive with any contract; calls of concurrent callers overlap
\* in every order when they are given different clients, while the
\* exclusive borrow of the client keeps a second call from starting on a
\* client that a call in progress holds.
C12_NoOrderOnDistinctConnections ==
    \A i \in Callers :
        /\ (pc[i] = "idle" /\ ncalls < MaxCalls) =>
              \A client \in Clients :
                  (ENABLED CallOn(i, client)) <=>
                      ~(\E j \in Callers \ {i} :
                            pc[j] \in {"send", "recv"}
                                /\ borrow[j] = client)
        /\ pc[i] = "send" => ENABLED Send(i)
        /\ pc[i] = "recv" =>
              \A c \in Replies : ENABLED RecvReply(i, Ok(c))
        /\ pc[i] \in {"send", "recv"} <=> borrow[i] \in Clients
        /\ \A j \in Callers \ {i} :
              (pc[i] \in {"send", "recv"} /\ pc[j] \in {"send", "recv"}) =>
                  borrow[i] # borrow[j]

\* both calls have sent and neither has received
C12_Witness ==
    \E i, j \in Callers :
        /\ i # j
        /\ pc[i] = "recv" /\ pc[j] = "recv"
        /\ steps[i] = <<[step |-> "send", ok |-> TRUE]>>
        /\ steps[j] = <<[step |-> "send", ok |-> TRUE]>>
        /\ borrow[i] \in Clients /\ borrow[j] \in Clients
        /\ borrow[i] # borrow[j]

\* C13: each accessor of the Security interface on a Contract holding
\* record r returns r's field of the same name (for a SecOption, the field
\* of its inner record), and after an accessor or a borrowing narrow the
\* caller still holds the Contract the operation was applied to.
C13_AccessorsDispatchAndLeaveContract ==
    /\ (out.on = "Contract" /\ out.op \in ContractAccessors) =>
          LET r == IF out.self.tag = "SecOption"
                   THEN out.self.t.inner ELSE out.self.t
          IN out.res = r[out.op]
    /\ (out.on = "Contract" /\ out.op \in ContractAccessors \cup {"narrow_ref"})
          => contract = out.self

C13_Witness ==
    /\ out.on = "Contract"
    /\ out.op = "long_name"
    /\ out.self.tag = "SecOption"
    /\ out.self.t.inner.symbol = "XAU"
    /\ out.res = "name"
    /\ contract = out.self

====
